---- MODULE Spec2Model ----
(***************************************************************************)
(* The causal key-value store of pkg/store (storage.go): one Store, its    *)
(* vector clock, its key-to-entry map, its replica list, its journal and   *)
(* the goroutines that call into it and may suspend on its condition       *)
(* variable.                                                               *)
(*                                                                         *)
(* Every public method of Store takes the store mutex for its whole        *)
(* duration and gives it up only inside sync.Cond.Wait, so a method runs   *)
(* as one atomic step from Lock to either its return or its Wait, and as   *)
(* one more atomic step from each wake-up to its return or its next Wait.  *)
(*                                                                         *)
(* pkg/clock is not among the sources; the VectorClock operators are       *)
(* written from the design document (sections 3, 4.1 and 8).  A clock is   *)
(* a total function from Nodes to counters: an absent key counts as 0.     *)
(***************************************************************************)
EXTENDS Naturals, Sequences, FiniteSets

\* The counters of the store's clock stay within MaxCount, those of the
\* clocks that callers and peers present within MaxClient.
MaxCount == 2
MaxClient == 1

\* The counters of the store's clock where gossip from one peer is followed.
MaxGossip == 3

\* The capacity of the journal channel where its consumer is followed.
MaxJournal == 1

\* s.addr, the store's own node, and the other nodes of the cluster.
addr == "n1"
Nodes == {"n1", "n2"}
Keys == {"a", "b"}
Values == {"1", "2"}
Procs == {"p1", "p2"}

VARIABLES
    replicas,  \* s.replicas, as a set of nodes
    store,     \* s.store: a function whose domain is the set of keys present
    vc,        \* s.vc
    journal,   \* the entries the step just taken sent on s.journal
    pc,        \* per goroutine: "idle", "waiting" (in Cond.Wait), "woken"
    req,       \* per goroutine: the call it is suspended in
    ret        \* what the step just taken returned to its caller, if it returned

vars == <<replicas, store, vc, journal, pc, req, ret>>

----------------------------------------------------------------------------
\* clock.VectorClock

ClocksTo(max) == [Nodes -> 0..max]

Zero == [n \in Nodes |-> 0]

Increment(c, n) == [c EXCEPT ![n] = @ + 1]

Max(a, b) == [n \in Nodes |-> IF a[n] >= b[n] THEN a[n] ELSE b[n]]

Subset(c, members) == [n \in Nodes |-> IF n \in members THEN c[n] ELSE 0]

Compare(a, b) ==
    IF a = b THEN "Equal"
    ELSE IF \A n \in Nodes : a[n] <= b[n] THEN "Less"
    ELSE IF \A n \in Nodes : a[n] >= b[n] THEN "Greater"
    ELSE "Concurrent"

\* this.OneUpExcept(node, other)
OneUpExcept(this, node, other) ==
    \E k \in Nodes \ {node} :
        /\ other[k] = this[k] + 1
        /\ \A j \in Nodes \ {node, k} : other[j] = this[j]

----------------------------------------------------------------------------
\* store.Entry and the map

ZeroEntry == [Key |-> "", Value |-> "", Deleted |-> FALSE, Clock |-> Zero]

NewEntry(key, value, deleted) ==
    [Key |-> key, Value |-> value, Deleted |-> deleted, Clock |-> Zero]

\* e, exists := s.store[key]
Exists(st, key) == key \in DOMAIN st
Lookup(st, key) == IF key \in DOMAIN st THEN st[key] ELSE ZeroEntry

\* s.store[e.Key] = e
Put(st, e) ==
    [k \in DOMAIN st \cup {e.Key} |-> IF k = e.Key THEN e ELSE st[k]]

----------------------------------------------------------------------------
\* store.Store

\* A call into the store: the method, its arguments, and the clock that
\* waitUntilCurrent / waitForGossip cut down to the replicas on entry.
Request(kind, tcausal, key, value, deleted) ==
    [kind |-> kind, tcausal |-> tcausal, key |-> key, value |-> value,
     deleted |-> deleted, incoming |-> Subset(tcausal, replicas)]

NoReq ==
    [kind |-> "none", tcausal |-> Zero, key |-> "", value |-> "",
     deleted |-> FALSE, incoming |-> Zero]

\* No call returned in this step.
NoCall ==
    [kind |-> "none", key |-> "", waited |-> FALSE, ok |-> FALSE,
     entry |-> ZeroEntry, count |-> 0, clock |-> Zero]

\* What a returning call hands back, beside its method and key and whether
\* it went through Wait: its results (ok is replaced / deleted / exists;
\* entry is Read's e; count is NumKeys' count) and currentClock, the copy
\* copyClock takes on the way out.
Returned(r, waited, ok, entry, count, clock) ==
    [kind |-> r.kind, key |-> r.key, waited |-> waited, ok |-> ok,
     entry |-> entry, count |-> count, clock |-> clock]

\* copyClock
copyClock(v) == v

\* A wait that ends only once the store is strictly past the clock.
CanProceedOnlyPast(incoming, v, reps) ==
    Compare(incoming, Subset(v, reps)) = "Less"

\* waitUntilCurrent: the test that ends the wait loop.
CanProceed(incoming, v, reps) ==
    Compare(incoming, Subset(v, reps)) # "Greater"

\* waitForGossip: the test that ends the wait loop.
CanApplyGossip(incoming, v, reps) ==
    OneUpExcept(incoming, addr, Subset(v, reps))

Passes(r) ==
    IF r.kind = "ImportEntry"
    THEN CanApplyGossip(r.incoming, vc, replicas)
    ELSE CanProceed(r.incoming, vc, replicas)

\* A wake-up of one goroutine in Wait, as s.vcCond.Signal() would do.
Signal(f) ==
    IF \E q \in Procs : f[q] = "waiting"
    THEN [f EXCEPT ![CHOOSE q \in Procs : f[q] = "waiting"] = "woken"]
    ELSE f

\* s.vcCond.Broadcast(): every goroutine in Wait becomes runnable.
Broadcast(f) ==
    [q \in Procs |-> IF f[q] = "waiting" THEN "woken" ELSE f[q]]

\* A replaced flag that does not look at the deleted flag.
ReplacedAny(st, key) == Exists(st, key)

\* A stamp taken one event of the local node too far.
StampAhead(e, v) == [e EXCEPT !.Clock = Increment(v, addr)]

\* commitWrite, on the clock v the caller has merged: the replaced flag,
\* the clock after the increment, the entry as stamped and stored, the map
\* and the journal.
Replaced(st, key) == Exists(st, key) /\ Lookup(st, key).Deleted # TRUE

CommitClock(v) == Increment(v, addr)

Stamp(e, v) == [e EXCEPT !.Clock = v]

\* A commit that sends whatever shouldJournal says.
JournalSendAlways(sent, e, shouldJournal) == Append(sent, e)

\* s.journal <- e: what this commit sends, after what the step has sent.
JournalSend(sent, e, shouldJournal) ==
    IF shouldJournal THEN Append(sent, e) ELSE sent

commitWrite(st, v, j, e, shouldJournal) ==
    LET stamped == Stamp(e, CommitClock(v)) IN
    [replaced |-> Replaced(st, e.Key),
     vc       |-> CommitClock(v),
     store    |-> Put(st, stamped),
     journal  |-> JournalSend(j, stamped, shouldJournal)]

\* A committing method from the end of its wait to its return.
Commit(p, r, merged, e, shouldJournal) ==
    LET c == commitWrite(store, merged, <<>>, e, shouldJournal) IN
    /\ vc' = c.vc
    /\ store' = c.store
    /\ journal' = c.journal
    /\ pc' = Broadcast([pc EXCEPT ![p] = "idle"])
    /\ req' = [req EXCEPT ![p] = NoReq]
    /\ ret' = Returned(r, pc[p] = "woken", c.replaced, ZeroEntry, 0,
                     copyClock(c.vc))
    /\ UNCHANGED replicas

\* A method that returns without committing.
Answer(p, r, ok, entry, count) ==
    /\ pc' = [pc EXCEPT ![p] = "idle"]
    /\ req' = [req EXCEPT ![p] = NoReq]
    /\ ret' = Returned(r, pc[p] = "woken", ok, entry, count, copyClock(vc))
    /\ journal' = <<>>
    /\ UNCHANGED <<replicas, store, vc>>

\* Write, after waitUntilCurrent.
DoWrite(p, r) ==
    Commit(p, r, Max(vc, r.tcausal), NewEntry(r.key, r.value, FALSE), TRUE)

\* ImportEntry, after waitForGossip.  Line 94 names s.Store, key and
\* address, none of which is declared; it touches no field of the Store.
DoImportEntry(p, r) ==
    Commit(p, r, Max(vc, r.tcausal), NewEntry(r.key, r.value, r.deleted), FALSE)

\* A Delete that does not look at the deleted flag.
DeleteAppliesToAny(st, key) == Exists(st, key)

\* Delete, after waitUntilCurrent.
DeleteApplies(st, key) == Exists(st, key) /\ ~Lookup(st, key).Deleted

DoDelete(p, r) ==
    IF DeleteApplies(store, r.key)
    THEN Commit(p, r, Max(vc, r.tcausal), NewEntry(r.key, "", TRUE), TRUE)
    ELSE Answer(p, r, FALSE, ZeroEntry, 0)

\* A Read that does not look at the deleted flag.
ReadOkAny(st, key) == Exists(st, key)

\* A Read that merges the clock it was called with, as Write does.
DoReadMerging(p, r) ==
    /\ vc' = Max(vc, r.tcausal)
    /\ pc' = [pc EXCEPT ![p] = "idle"]
    /\ req' = [req EXCEPT ![p] = NoReq]
    /\ ret' = Returned(r, pc[p] = "woken", Exists(store, r.key),
                     Lookup(store, r.key), 0, copyClock(Max(vc, r.tcausal)))
    /\ journal' = <<>>
    /\ UNCHANGED <<replicas, store>>

\* Read, after waitUntilCurrent.
ReadOk(st, key) == Exists(st, key) /\ ~Lookup(st, key).Deleted

DoRead(p, r) ==
    Answer(p, r, ReadOk(store, r.key), Lookup(store, r.key), 0)

\* A count of every key of the map, tombstones included.
CountAll(st) == Cardinality(DOMAIN st)

\* NumKeys, after waitUntilCurrent.
CountKeys(st) == Cardinality({k \in DOMAIN st : ~st[k].Deleted})

DoNumKeys(p, r) ==
    Answer(p, r, FALSE, ZeroEntry, CountKeys(store))

Do(p, r) ==
    CASE r.kind = "Write" -> DoWrite(p, r)
      [] r.kind = "ImportEntry" -> DoImportEntry(p, r)
      [] r.kind = "Delete" -> DoDelete(p, r)
      [] r.kind = "Read" -> DoRead(p, r)
      [] r.kind = "NumKeys" -> DoNumKeys(p, r)

\* s.vcCond.Wait(): give up the mutex and suspend.
Suspend(p, r) ==
    /\ pc' = [pc EXCEPT ![p] = "waiting"]
    /\ req' = [req EXCEPT ![p] = r]
    /\ ret' = NoCall
    /\ journal' = <<>>
    /\ UNCHANGED <<replicas, store, vc>>

\* A method from Lock to its return or its first Wait.
Enter(p, r) ==
    /\ pc[p] = "idle"
    /\ IF Passes(r) THEN Do(p, r) ELSE Suspend(p, r)

----------------------------------------------------------------------------
\* The steps

Write(p, tcausal, key, value) ==
    Enter(p, Request("Write", tcausal, key, value, FALSE))

ImportEntry(p, e) ==
    Enter(p, Request("ImportEntry", e.Clock, e.Key, e.Value, e.Deleted))

Delete(p, tcausal, key) ==
    Enter(p, Request("Delete", tcausal, key, "", FALSE))

Read(p, tcausal, key) ==
    Enter(p, Request("Read", tcausal, key, "", FALSE))

NumKeys(p, tcausal) ==
    Enter(p, Request("NumKeys", tcausal, "", "", FALSE))

\* A goroutine that Broadcast woke takes the mutex again and goes round
\* its wait loop: it returns, or it waits again.
Resume(p) ==
    /\ pc[p] = "woken"
    /\ IF Passes(req[p]) THEN Do(p, req[p])
       ELSE /\ pc' = [pc EXCEPT ![p] = "waiting"]
            /\ ret' = NoCall
            /\ journal' = <<>>
            /\ UNCHANGED <<replicas, store, vc, req>>

SetReplicas(nodes) ==
    /\ replicas' = nodes
    /\ ret' = NoCall
    /\ journal' = <<>>
    /\ UNCHANGED <<store, vc, pc, req>>

BumpClockForNode(node) ==
    /\ vc' = Increment(vc, node)
    /\ pc' = Broadcast(pc)
    /\ ret' = NoCall
    /\ journal' = <<>>
    /\ UNCHANGED <<replicas, store, req>>

\* The stamps a peer's commitWrite can have put on an entry, among the
\* clocks C: the peer has incremented its own counter.
PeerStamps(C) == {c \in C : \E n \in Nodes \ {addr} : c[n] > 0}

\* The entries a peer can send under the clocks C: a key with a value, or
\* the tombstone Delete commits (no value).
GossipEntries(C, V) ==
    {[Key |-> k, Value |-> v, Deleted |-> FALSE, Clock |-> c] :
        k \in Keys, v \in V, c \in PeerStamps(C)}
    \cup {[Key |-> k, Value |-> "", Deleted |-> TRUE, Clock |-> c] :
        k \in Keys, c \in PeerStamps(C)}

\* The replica lists SetReplicas is given: the store's own node is a member.
ReplicaLists == {S \in SUBSET Nodes : addr \in S}

\* store.New(addr, nodes, journal)
New(nodes) ==
    /\ replicas = nodes
    /\ store = [k \in {} |-> ZeroEntry]
    /\ vc = Zero
    /\ journal = <<>>
    /\ pc = [p \in Procs |-> "idle"]
    /\ req = [p \in Procs |-> NoReq]
    /\ ret = NoCall

Init == New(Nodes)

\* The store's clock stays within the counters max.
Within(max) == \A n \in Nodes : vc[n] <= max

\* One goroutine calls into the store; the gossip layer and the view change
\* call BumpClockForNode and SetReplicas.
Callers == {"p1"}

\* What the callers present: any clock within the bound, and any entry a
\* peer can have stamped within it.
ClientClocks == ClocksTo(MaxClient)
PeerEntries == GossipEntries(ClientClocks, {"2"})

Bounded == Within(MaxCount)

Next ==
    \/ \E p \in Callers, c \in ClientClocks, k \in Keys, v \in Values :
        Write(p, c, k, v) /\ Bounded'
    \/ \E p \in Callers, e \in PeerEntries : ImportEntry(p, e) /\ Bounded'
    \/ \E p \in Callers, c \in ClientClocks, k \in Keys : Delete(p, c, k) /\ Bounded'
    \/ \E p \in Callers, c \in ClientClocks, k \in Keys : Read(p, c, k)
    \/ \E p \in Callers, c \in ClientClocks : NumKeys(p, c)
    \/ \E p \in Callers : Resume(p) /\ Bounded'
    \/ \E nodes \in ReplicaLists : SetReplicas(nodes)
    \/ \E node \in Nodes : BumpClockForNode(node) /\ Bounded'

Spec == Init /\ [][Next]_vars

\* Two goroutines call into the store concurrently, on one key and under a
\* replica list that stays as constructed; a goroutine that Broadcast has
\* woken gets the mutex in the end.
LiveEntries == {e \in PeerEntries : e.Key = "a"}

LiveResume(p) == Resume(p) /\ Bounded'

LiveNext ==
    \/ \E p \in Procs, c \in ClientClocks : Read(p, c, "a")
    \/ \E p \in Procs, c \in ClientClocks : Write(p, c, "a", "1") /\ Bounded'
    \/ \E p \in Procs, c \in ClientClocks : Delete(p, c, "a") /\ Bounded'
    \/ \E p \in Procs, e \in LiveEntries : ImportEntry(p, e) /\ Bounded'
    \/ \E p \in Procs : LiveResume(p)
    \/ \E node \in Nodes : BumpClockForNode(node) /\ Bounded'

\* Gossip from a peer that has seen none of this node's events: two
\* goroutines import its entries, next to local writes and the gossip layer's
\* BumpClockForNode.
OriginClocks == {c \in ClocksTo(MaxGossip - 1) : c[addr] = 0}

OriginEntries == GossipEntries(OriginClocks, {"2"})

GossipBounded == Within(MaxGossip)

GossipNext ==
    \/ \E p \in Procs, e \in OriginEntries : ImportEntry(p, e) /\ GossipBounded'
    \/ \E p \in Procs, k \in Keys : Write(p, Zero, k, "1") /\ GossipBounded'
    \/ \E p \in Procs : Resume(p) /\ GossipBounded'
    \/ \E node \in Nodes : BumpClockForNode(node) /\ GossipBounded'

GossipSpec == Init /\ [][GossipNext]_vars

\* The same gossip, where a goroutine that Broadcast has woken gets the
\* mutex in the end.
GossipResume(p) == Resume(p) /\ GossipBounded'

GossipLiveNext ==
    \/ \E p \in Procs, e \in OriginEntries : ImportEntry(p, e) /\ GossipBounded'
    \/ \E p \in Procs, k \in Keys : Write(p, Zero, k, "1") /\ GossipBounded'
    \/ \E p \in Procs : GossipResume(p)
    \/ \E node \in Nodes : BumpClockForNode(node) /\ GossipBounded'

GossipLiveSpec ==
    Init /\ [][GossipLiveNext]_vars
         /\ \A p \in Procs : WF_vars(GossipResume(p))

LiveInit == \E nodes \in ReplicaLists : New(nodes)

LiveSpec ==
    LiveInit /\ [][LiveNext]_vars /\ \A p \in Procs : WF_vars(LiveResume(p))

\* The journal as a channel of capacity MaxJournal, and its consumer.
\* commitWrite sends on s.journal with the store mutex held: a send that
\* finds the channel full blocks there, and the mutex stays taken until the
\* consumer makes room.  In these steps journal is the content of the
\* channel; pc is "sending" for a goroutine blocked in the send, and for the
\* consumer "idle" at its receive and "calling" once it has received an
\* entry and is about to call into the store.
Consumer == "p2"

\* s.m is free: no goroutine is held in commitWrite's send.
LockFree == \A q \in Procs : pc[q] # "sending"

\* The call of a goroutine blocked in the send, with the flag it will return.
Sending(r, replaced) ==
    [kind |-> r.kind, tcausal |-> r.tcausal, key |-> r.key,
     value |-> r.value, deleted |-> r.deleted, incoming |-> r.incoming,
     replaced |-> replaced]

\* Write or Delete from Lock through commitWrite: to its return when the
\* channel takes the entry, to the blocked send when the channel is full.
LockedCommit(p, r, e) ==
    LET c == commitWrite(store, Max(vc, r.tcausal), journal, e, TRUE) IN
    /\ vc' = c.vc
    /\ store' = c.store
    /\ UNCHANGED replicas
    /\ IF Len(journal) < MaxJournal
       THEN /\ journal' = c.journal
            /\ pc' = Broadcast([pc EXCEPT ![p] = "idle"])
            /\ req' = [req EXCEPT ![p] = NoReq]
            /\ ret' = Returned(r, FALSE, c.replaced, ZeroEntry, 0,
                             copyClock(c.vc))
       ELSE /\ journal' = journal
            /\ pc' = Broadcast([pc EXCEPT ![p] = "sending"])
            /\ req' = [req EXCEPT ![p] = Sending(r, c.replaced)]
            /\ ret' = NoCall

LockedWrite(p, tcausal, key, value) ==
    LET r == Request("Write", tcausal, key, value, FALSE) IN
    /\ LockFree /\ pc[p] = "idle"
    /\ Passes(r)
    /\ LockedCommit(p, r, NewEntry(key, value, FALSE))

LockedDelete(p, tcausal, key) ==
    LET r == Request("Delete", tcausal, key, "", FALSE) IN
    /\ LockFree /\ pc[p] = "idle"
    /\ Passes(r)
    /\ IF DeleteApplies(store, key)
       THEN LockedCommit(p, r, NewEntry(key, "", TRUE))
       ELSE /\ ret' = Returned(r, FALSE, FALSE, ZeroEntry, 0, copyClock(vc))
            /\ UNCHANGED <<replicas, store, vc, journal, pc, req>>

\* The channel has room again: the blocked send completes, commitWrite
\* returns and the mutex is released.
SendJournal(p) ==
    /\ pc[p] = "sending"
    /\ Len(journal) < MaxJournal
    /\ journal' = Append(journal, store[req[p].key])
    /\ pc' = [pc EXCEPT ![p] = "idle"]
    /\ req' = [req EXCEPT ![p] = NoReq]
    /\ ret' = Returned(req[p], FALSE, req[p].replaced, ZeroEntry, 0,
                     copyClock(vc))
    /\ UNCHANGED <<replicas, store, vc>>

\* The consumer receives one entry from the channel.
ReceiveJournal ==
    /\ pc[Consumer] = "idle"
    /\ journal # <<>>
    /\ journal' = Tail(journal)
    /\ pc' = [pc EXCEPT ![Consumer] = "calling"]
    /\ ret' = NoCall
    /\ UNCHANGED <<replicas, store, vc, req>>

\* Between receives the consumer calls String ...
ConsumerString ==
    /\ pc[Consumer] = "calling"
    /\ LockFree
    /\ pc' = [pc EXCEPT ![Consumer] = "idle"]
    /\ ret' = NoCall
    /\ UNCHANGED <<replicas, store, vc, journal, req>>

\* ... or BumpClockForNode.
ConsumerBump(node) ==
    /\ pc[Consumer] = "calling"
    /\ LockFree
    /\ vc' = Increment(vc, node)
    /\ pc' = Broadcast([pc EXCEPT ![Consumer] = "idle"])
    /\ ret' = NoCall
    /\ UNCHANGED <<replicas, store, journal, req>>

JournalBounded == Within(MaxJournal + 2)

JournalNext ==
    \/ \E p \in Callers, k \in Keys, v \in Values :
        LockedWrite(p, Zero, k, v) /\ JournalBounded'
    \/ \E p \in Callers, k \in Keys : LockedDelete(p, Zero, k) /\ JournalBounded'
    \/ \E p \in Callers : SendJournal(p)
    \/ ReceiveJournal
    \/ ConsumerString
    \/ \E node \in Nodes \ {addr} : ConsumerBump(node) /\ JournalBounded'

JournalSpec == Init /\ [][JournalNext]_vars

\* pkg/handlers: the HTTP handlers, one goroutine per request.  They call
\* the store without a causal clock, so no call of theirs waits.
\* deleteHandler between its Read and its Delete: the key and Read's ok.
Checked(key, ok) ==
    [kind |-> "deleteHandler", tcausal |-> Zero, key |-> key, value |-> "",
     deleted |-> FALSE, incoming |-> Zero, exists |-> ok]

\* deleteHandler up to the return of s.store.Read(in.Key).
deleteHandlerRead(p, key) ==
    /\ pc[p] = "idle"
    /\ pc' = [pc EXCEPT ![p] = "checked"]
    /\ req' = [req EXCEPT ![p] = Checked(key, ReadOk(store, key))]
    /\ ret' = NoCall
    /\ journal' = <<>>
    /\ UNCHANGED <<replicas, store, vc>>

\* deleteHandler from s.store.Delete(in.Key), whose result it drops, to its
\* response: ok stands for DeleteSuccess, ~ok for 404 / KeyDNE.
deleteHandlerDelete(p) ==
    LET r == req[p]
        c == commitWrite(store, vc, <<>>, NewEntry(r.key, "", TRUE), TRUE)
    IN
    /\ pc[p] = "checked"
    /\ IF DeleteApplies(store, r.key)
       THEN /\ vc' = c.vc
            /\ store' = c.store
            /\ journal' = c.journal
            /\ pc' = Broadcast([pc EXCEPT ![p] = "idle"])
       ELSE /\ journal' = <<>>
            /\ pc' = [pc EXCEPT ![p] = "idle"]
            /\ UNCHANGED <<store, vc>>
    /\ req' = [req EXCEPT ![p] = NoReq]
    /\ ret' = Returned(r, FALSE, r.exists, ZeroEntry, 0, Zero)
    /\ UNCHANGED replicas

\* putHandler: s.store.Set(in.Key, in.Value).
putHandler(p, key, value) == Write(p, Zero, key, value)

HandlerNext ==
    \/ \E p \in Procs, k \in Keys : deleteHandlerRead(p, k)
    \/ \E p \in Procs : deleteHandlerDelete(p) /\ Bounded'
    \/ \E p \in Procs, k \in Keys, v \in Values : putHandler(p, k, v) /\ Bounded'

HandlerSpec == Init /\ [][HandlerNext]_vars

\* gossip.Manager: the periodic relay, run by one goroutine of the process.
Gossiper == "p2"

\* m.address: NewManager leaves it at its zero value.
ManagerAddress == ""

\* What can happen to the message for one peer: url.Parse fails,
\* http.NewRequest fails, client.Do fails (peer unreachable), or the
\* request is delivered.
Outcomes == {"badaddress", "badrequest", "unreachable", "delivered"}

\* relayGossip inside its loop: the peers it has still to visit.
Relaying(todo) ==
    [kind |-> "relayGossip", tcausal |-> Zero, key |-> "", value |-> "",
     deleted |-> FALSE, incoming |-> Zero, todo |-> todo]

\* A gossip tick: relayGossip starts its loop over the nodes.
relayGossip(p) ==
    /\ pc[p] = "idle"
    /\ pc' = [pc EXCEPT ![p] = "relaying"]
    /\ req' = [req EXCEPT ![p] = Relaying(Nodes)]
    /\ ret' = NoCall
    /\ journal' = <<>>
    /\ UNCHANGED <<replicas, store, vc>>

\* log.Fatalln: the process exits, and every goroutine with it.
Fatal(f) == [q \in Procs |-> "exited"]

\* A failure that is logged, after which the loop goes on.
LogAndContinue(f) == f

\* One round of the loop, for the node nodeAddr: skipped when it is the
\* manager's own address or when the request cannot be built; sent
\* otherwise, and log.Fatalln when client.Do returns an error.
relayPeer(p, nodeAddr, outcome) ==
    /\ pc[p] = "relaying"
    /\ nodeAddr \in req[p].todo
    /\ req' = [req EXCEPT ![p] = Relaying(req[p].todo \ {nodeAddr})]
    /\ pc' = IF nodeAddr # ManagerAddress /\ outcome = "unreachable"
             THEN Fatal(pc)
             ELSE LogAndContinue(pc)
    /\ ret' = NoCall
    /\ journal' = <<>>
    /\ UNCHANGED <<replicas, store, vc>>

\* The loop has visited every node: relayGossip returns.
relayDone(p) ==
    /\ pc[p] = "relaying"
    /\ req[p].todo = {}
    /\ pc' = [pc EXCEPT ![p] = "idle"]
    /\ req' = [req EXCEPT ![p] = NoReq]
    /\ ret' = NoCall
    /\ journal' = <<>>
    /\ UNCHANGED <<replicas, store, vc>>

\* The relay next to the client calls of another goroutine.
RelayNext ==
    \/ relayGossip(Gossiper)
    \/ \E n \in Nodes, o \in Outcomes : relayPeer(Gossiper, n, o)
    \/ relayDone(Gossiper)
    \/ \E p \in Callers, k \in Keys, v \in Values :
        Write(p, Zero, k, v) /\ Bounded'
    \/ \E p \in Callers, k \in Keys : Delete(p, Zero, k) /\ Bounded'

RelaySpec == Init /\ [][RelayNext]_vars

\* Two replicas of each other, each a Store of its own running the code
\* above.  In these steps store, vc and journal hold one value per node:
\* the node's map, its clock, and the entries it has journaled that the
\* gossip layer has not yet handed to the other node's ImportEntry; every
\* node has one goroutine that runs ImportEntry for the entries it receives.
Peer == "n2"

\* A replica sees itself where the definitions above see addr: its clocks
\* are read with its own node and addr exchanged.
Other(n) == IF n = addr THEN Peer ELSE IF n = Peer THEN addr ELSE n

View(n, c) == IF n = addr THEN c ELSE [m \in Nodes |-> c[Other(m)]]

ImporterAt(n) == IF n = addr THEN "p1" ELSE "p2"

\* The key a replica's clients write: the replicas write disjoint keys.
KeyOf(n) == IF n = addr THEN "a" ELSE "b"

\* commitWrite at the replica n, on the clock the caller has merged: the
\* replica's clock and map afterwards, and the entry as stamped.
ReplicaCommit(n, merged, e, shouldJournal) ==
    LET c == commitWrite(store[n], View(n, merged), <<>>, e, shouldJournal)
        stamped == Stamp(e, View(n, c.vc))
    IN [vc |-> View(n, c.vc), store |-> Put(store[n], stamped),
        entry |-> stamped]

\* s.vcCond.Broadcast() at the replica n wakes n's own waiters.
BroadcastAt(n, f) ==
    [q \in Procs |->
        IF q = ImporterAt(n) /\ f[q] = "waiting" THEN "woken" ELSE f[q]]

\* A client of n writes n's key, with an empty clock (no wait).
ReplicaWrite(n, value) ==
    LET c == ReplicaCommit(n, vc[n], NewEntry(KeyOf(n), value, FALSE), TRUE) IN
    /\ vc' = [vc EXCEPT ![n] = c.vc]
    /\ store' = [store EXCEPT ![n] = c.store]
    /\ journal' = [journal EXCEPT ![n] = Append(@, c.entry)]
    /\ pc' = BroadcastAt(n, pc)
    /\ UNCHANGED <<replicas, req, ret>>

\* waitForGossip at the replica n for the clock of an incoming entry.
CanImportAt(n, clock) ==
    CanApplyGossip(View(n, Subset(clock, replicas)), View(n, vc[n]), replicas)

\* ImportEntry at n after waitForGossip, and the acknowledgment: the
\* sender calls BumpClockForNode(n) on its own store.
ImportAndAck(n, from, r) ==
    LET c == ReplicaCommit(n, Max(vc[n], r.tcausal),
                           NewEntry(r.key, r.value, r.deleted), FALSE) IN
    /\ vc' = [vc EXCEPT ![n] = c.vc, ![from] = Increment(vc[from], n)]
    /\ store' = [store EXCEPT ![n] = c.store]
    /\ pc' = BroadcastAt(from, [pc EXCEPT ![ImporterAt(n)] = "idle"])
    /\ req' = [req EXCEPT ![ImporterAt(n)] = NoReq]

\* The gossip layer of `from` hands its oldest journaled entry to the
\* ImportEntry of `to`, which commits it or goes into Wait.
HandOver(from, to) ==
    LET e == Head(journal[from])
        r == Request("ImportEntry", e.Clock, e.Key, e.Value, e.Deleted)
    IN
    /\ journal[from] # <<>>
    /\ pc[ImporterAt(to)] = "idle"
    /\ journal' = [journal EXCEPT ![from] = Tail(@)]
    /\ IF CanImportAt(to, e.Clock)
       THEN ImportAndAck(to, from, r)
       ELSE /\ pc' = [pc EXCEPT ![ImporterAt(to)] = "waiting"]
            /\ req' = [req EXCEPT ![ImporterAt(to)] = r]
            /\ UNCHANGED <<store, vc>>
    /\ UNCHANGED <<replicas, ret>>

\* The importer of n, woken, goes round waitForGossip's loop again.
ReplicaResume(n, from) ==
    /\ pc[ImporterAt(n)] = "woken"
    /\ IF CanImportAt(n, req[ImporterAt(n)].tcausal)
       THEN ImportAndAck(n, from, req[ImporterAt(n)])
       ELSE /\ pc' = [pc EXCEPT ![ImporterAt(n)] = "waiting"]
            /\ UNCHANGED <<store, vc, req>>
    /\ UNCHANGED <<replicas, journal, ret>>

ReplicasInit ==
    /\ replicas = Nodes
    /\ store = [n \in Nodes |-> [k \in {} |-> ZeroEntry]]
    /\ vc = [n \in Nodes |-> Zero]
    /\ journal = [n \in Nodes |-> <<>>]
    /\ pc = [p \in Procs |-> "idle"]
    /\ req = [p \in Procs |-> NoReq]
    /\ ret = NoCall

ReplicasBounded == \A n, m \in Nodes : vc[n][m] <= MaxCount

Exchange(from, to) == HandOver(from, to) /\ ReplicasBounded'

Recheck(n, from) == ReplicaResume(n, from) /\ ReplicasBounded'

ReplicasNext ==
    \/ \E n \in Nodes, v \in Values : ReplicaWrite(n, v) /\ ReplicasBounded'
    \/ \E n \in Nodes : Exchange(n, Other(n))
    \/ \E n \in Nodes : Recheck(n, Other(n))

ReplicasSpec ==
    /\ ReplicasInit /\ [][ReplicasNext]_vars
    /\ \A n \in Nodes : WF_vars(Exchange(n, Other(n)))
    /\ \A n \in Nodes : WF_vars(Recheck(n, Other(n)))

\* A view change while calls are blocked: one goroutine calls the client
\* methods on one key, the view change replaces the replica list, and a
\* goroutine that Broadcast has woken gets the mutex in the end.
ViewResume(p) == Resume(p) /\ Bounded'

ViewNext ==
    \/ \E p \in Callers, c \in ClientClocks : Read(p, c, "a")
    \/ \E p \in Callers, c \in ClientClocks : NumKeys(p, c)
    \/ \E p \in Callers, c \in ClientClocks, v \in Values :
        Write(p, c, "a", v) /\ Bounded'
    \/ \E p \in Callers, c \in ClientClocks : Delete(p, c, "a") /\ Bounded'
    \/ \E p \in Callers : ViewResume(p)
    \/ \E nodes \in ReplicaLists : SetReplicas(nodes)
    \/ \E node \in Nodes : BumpClockForNode(node) /\ Bounded'

ViewSpec ==
    Init /\ [][ViewNext]_vars /\ \A p \in Callers : WF_vars(ViewResume(p))

----------------------------------------------------------------------------
\* Steps of a call, as the claims speak of them

ClientKinds == {"Read", "NumKeys", "Write", "Delete"}

\* p's Read, NumKeys, Write or Delete under the client clock c gets past
\* waitUntilCurrent in this step (at once, or after waiting) and returns.
PastWait(p, c) ==
    /\ ret'.kind \in ClientKinds
    /\ \/ /\ pc[p] = "woken"
          /\ req[p].tcausal = c
          /\ Resume(p)
       \/ \E k \in Keys : Read(p, c, k) \/ Delete(p, c, k)
       \/ \E k \in Keys, v \in Values : Write(p, c, k, v)
       \/ NumKeys(p, c)

\* The store has caught up to c: no replica counter of c is ahead of it.
CaughtUp(c) == \A n \in replicas : vc[n] >= c[n]

\* C1: whenever Read, NumKeys, Write or Delete gets past its causal wait for
\* a client clock c, the store's counter of every node of the replica list
\* is at least c's: no call is served while a replica counter of its clock
\* is ahead of the store, also when the clock is Concurrent with the store's.
CausalAdmission ==
    [][\A p \in Procs, c \in ClientClocks : PastWait(p, c) => CaughtUp(c)]_vars

\* The key has no live entry: it is absent from the map or tombstoned.
Gone(st, k) == k \notin DOMAIN st \/ st[k].Deleted

\* p is inside a Read: in Wait, or woken and not yet back under the mutex.
Reading(p) == pc[p] # "idle" /\ req[p].kind = "Read"

\* The store's clock, cut to the replicas, is at least p's clock on every
\* counter.
Dominated(p) ==
    \A n \in Nodes : req[p].incoming[n] <= Subset(vc, replicas)[n]

Returns(p, kind, c, k, v) ==
    /\ ret'.kind = kind
    /\ \/ pc[p] = "idle" /\ Enter(p, Request(kind, c, k, v, FALSE))
       \/ /\ pc[p] = "woken"
          /\ req[p].kind = kind /\ req[p].tcausal = c
          /\ req[p].key = k /\ req[p].value = v
          /\ Resume(p)

\* p's ImportEntry(e) commits and returns in this step.
Imported(p, e) ==
    /\ ret'.kind = "ImportEntry"
    /\ \/ pc[p] = "idle" /\ ImportEntry(p, e)
       \/ /\ pc[p] = "woken"
          /\ req[p].kind = "ImportEntry" /\ req[p].tcausal = e.Clock
          /\ req[p].key = e.Key /\ req[p].value = e.Value
          /\ req[p].deleted = e.Deleted
          /\ Resume(p)

\* C3: Write(c, k, v) stores v under k, live, stamped with the clock c' it
\* returns; a Read(c', k) made while that entry is the one stored returns in
\* the same step (no wait) with exists = true and value v; and the entry
\* stored under k changes only by a Write, Delete or ImportEntry on k.
WriteReadRoundTrip ==
    [][/\ \A p \in Procs, c \in ClientClocks, k \in Keys, v \in Values :
            Returns(p, "Write", c, k, v) =>
                /\ k \in DOMAIN store'
                /\ store'[k].Value = v /\ ~store'[k].Deleted
                /\ store'[k].Clock = ret'.clock
       /\ \A p \in Procs, k \in DOMAIN store :
            (~store[k].Deleted /\ Read(p, store[k].Clock, k)) =>
                /\ ret'.kind = "Read" /\ ret'.ok
                /\ ret'.entry.Value = store[k].Value
       /\ \A k \in DOMAIN store :
            store'[k] # store[k] =>
                /\ ret'.kind \in {"Write", "Delete", "ImportEntry"}
                /\ ret'.key = k]_vars

\* A Read has just returned a value only Write stores ("1"), from the entry
\* committed last (its stamp is the store's clock).
ReadBackWritten ==
    /\ ret.kind = "Read" /\ ret.ok
    /\ ret.entry.Value = "1"
    /\ ret.entry.Clock = vc

\* C4: Delete returns deleted = true exactly when the key has a live entry,
\* and then stores a tombstone; otherwise (absent or tombstoned key) it
\* returns deleted = false and the map, every counter of the store's clock
\* and the journal are as before the call.
DeleteOnlyLive ==
    [][ret'.kind = "Delete" =>
        /\ ret'.ok = ~Gone(store, ret'.key)
        /\ ret'.ok => ret'.key \in DOMAIN store' /\ store'[ret'.key].Deleted
        /\ ~ret'.ok => store' = store /\ vc' = vc /\ journal' = <<>>]_vars

\* A Delete of a tombstoned key has just returned deleted = false.
DeleteOfTombstone ==
    /\ ret.kind = "Delete" /\ ~ret.ok
    /\ ret.key \in DOMAIN store /\ store[ret.key].Deleted

\* C5: once Delete has returned deleted = true for a key, the key has no
\* live entry; while a key has no live entry (never written, or deleted)
\* every Read of it returns exists = false and every Delete of it returns
\* deleted = false; and a key without a live entry gets one only by a Write
\* or an ImportEntry on it.
DeleteIdempotent ==
    [][\A k \in Keys :
        /\ (ret'.kind = "Delete" /\ ret'.key = k /\ ret'.ok) => Gone(store', k)
        /\ (Gone(store, k) /\ ret'.kind \in {"Read", "Delete"} /\ ret'.key = k)
                => ~ret'.ok
        /\ (Gone(store, k) /\ ~Gone(store', k))
                => ret'.key = k /\ ret'.kind \in {"Write", "ImportEntry"}]_vars

\* A Read of a key whose entry is a tombstone has just returned
\* exists = false.
ReadOfDeleted ==
    /\ ret.kind = "Read" /\ ~ret.ok
    /\ ret.key \in DOMAIN store /\ store[ret.key].Deleted

\* The entry's clock is the next expected update: on the replicas other than
\* the store's own node it is the store's clock plus one on one counter.
NextExpected(e, v, reps) ==
    \E k \in reps \ {addr} :
        /\ e[k] = v[k] + 1
        /\ \A j \in reps \ {addr, k} : e[j] = v[j]

\* C6: ImportEntry(e) commits e only in a state where e's clock is the next
\* expected update: restricted to the replicas and ignoring the local node's
\* counter, the store's clock plus one increment on one counter.
ImportAdmission ==
    [][\A p \in Procs, e \in PeerEntries :
        Imported(p, e) => NextExpected(e.Clock, vc, replicas)]_vars

\* The peer stamped e1 before e2: e2's clock has all of e1's and more of the
\* peer's own events.
Earlier(e1, e2) ==
    /\ \A n \in Nodes : e1.Clock[n] <= e2.Clock[n]
    /\ \E o \in Nodes \ {addr} : e1.Clock[o] < e2.Clock[o]

\* q's ImportEntry(e) has been called and has not committed.
Pending(q, e) ==
    /\ pc[q] # "idle"
    /\ req[q].kind = "ImportEntry" /\ req[q].tcausal = e.Clock
    /\ req[q].key = e.Key /\ req[q].value = e.Value
    /\ req[q].deleted = e.Deleted

\* C8: entries of one originating node are committed in the order it stamped
\* them: no ImportEntry(e2) commits while an ImportEntry(e1) of an entry the
\* same node stamped earlier has been called and e1 is not committed yet
\* (nothing has ever been committed under e1's key).
FifoPerOrigin ==
    [][\A p, q \in Procs, e1, e2 \in OriginEntries :
        ~ /\ Earlier(e1, e2)
          /\ Pending(q, e1)
          /\ e1.Key \notin DOMAIN store
          /\ Imported(p, e2)]_vars

\* The entry's clock is already dominated by the store's.
Stale(e) == \A n \in replicas : e.Clock[n] <= vc[n]

\* C7: ImportEntry(e) of an entry whose clock the store's clock dominates
\* returns without waiting and leaves the entry stored under e's key as it
\* was.
StaleDuplicateAccepted ==
    [][\A p \in Procs, e \in PeerEntries :
        (Stale(e) /\ ImportEntry(p, e)) =>
            /\ ret'.kind = "ImportEntry"
            /\ Lookup(store', e.Key) = Lookup(store, e.Key)]_vars

\* C9: a Write, and a Delete that returns deleted = true, send exactly one
\* entry on the journal, the entry just stored under the key, stamped later
\* than every clock stamped before; every other step sends nothing.
JournalEmission ==
    [][IF ret'.kind = "Write" \/ (ret'.kind = "Delete" /\ ret'.ok)
       THEN /\ journal' = <<store'[ret'.key]>>
            /\ journal'[1].Clock[addr] > vc[addr]
       ELSE journal' = <<>>]_vars

\* A Delete has just committed a tombstone and sent it on the journal.
TombstoneJournaled ==
    /\ ret.kind = "Delete" /\ ret.ok
    /\ journal = <<store[ret.key]>>
    /\ journal[1].Deleted

\* C10: ImportEntry(e) does not count as an event of the local node: the
\* store's own counter is what merging e's clock makes it, and the entry
\* stored under e's key carries the clock e arrived with.
ImportKeepsStamp ==
    [][\A p \in Procs, e \in PeerEntries :
        Imported(p, e) =>
            /\ vc'[addr] = Max(vc, e.Clock)[addr]
            /\ store'[e.Key].Clock = e.Clock]_vars

\* The clock a dominates the clock b: no counter of b is ahead of a's.
Dominates(a, b) == \A n \in Nodes : a[n] >= b[n]

\* C13: no counter of the store's clock ever decreases; every entry is
\* stamped, when it is committed, with the store's clock of that moment; and
\* the clock an operation returns is the store's clock at its return, which
\* dominates the stamp of every entry in the map (with the first two, of
\* every entry committed before).
ClockDomination ==
    [][/\ Dominates(vc', vc)
       /\ \A k \in DOMAIN store' :
            (k \notin DOMAIN store \/ store'[k] # Lookup(store, k))
                => store'[k].Clock = vc'
       /\ \A k \in DOMAIN store' : Dominates(vc', store'[k].Clock)
       /\ ret'.kind \in ClientKinds =>
            /\ ret'.clock = vc'
            /\ \A k \in DOMAIN store' : Dominates(ret'.clock, store'[k].Clock)
      ]_vars

\* An operation has just returned a clock that is strictly ahead of the
\* stamp of an entry committed earlier and still in the map.
ReturnedClockPastEntry ==
    /\ ret.kind \in ClientKinds
    /\ \E k \in DOMAIN store :
        /\ Dominates(ret.clock, store[k].Clock)
        /\ ret.clock # store[k].Clock

\* C14: no step removes a key from the map, and NumKeys returns the number
\* of keys for which Read reports exists = true: tombstoned keys stay in the
\* map and are not counted.
NumKeysCountsLive ==
    [][/\ DOMAIN store \subseteq DOMAIN store'
       /\ ret'.kind = "NumKeys" =>
            ret'.count = Cardinality({k \in Keys : ReadOk(store', k)})]_vars

\* NumKeys has just returned 1 from a map of two keys, one of them
\* tombstoned.
NumKeysSkipsTombstone ==
    /\ ret.kind = "NumKeys" /\ ret.count = 1
    /\ DOMAIN store = Keys
    /\ \E k \in Keys : store[k].Deleted

\* C15: a step in which Read or NumKeys returns leaves the map and every
\* counter of the store's clock as they were and sends nothing on the
\* journal, and the clock it returns is the store's clock.
ReadOnly ==
    [][ret'.kind \in {"Read", "NumKeys"} =>
        /\ store' = store
        /\ vc' = vc
        /\ journal' = <<>>
        /\ ret'.clock = vc']_vars

\* A Read that went through Wait has just returned from a store that holds
\* entries and whose clock has advanced.
ReadReturnedAfterWait ==
    /\ ret.kind = "Read" /\ ret.waited
    /\ ret.clock = vc /\ vc # Zero
    /\ DOMAIN store # {}

\* C16: Write(c, k, v) returns replaced = true exactly when, as it commits,
\* the map holds a live entry for k (false when k is absent or tombstoned),
\* and afterwards the map holds a live entry for k with value v.
WriteReplacedFlag ==
    [][\A p \in Procs, c \in ClientClocks, k \in Keys, v \in Values :
        Returns(p, "Write", c, k, v) =>
            /\ ret'.ok = ~Gone(store, k)
            /\ k \in DOMAIN store'
            /\ store'[k].Value = v /\ ~store'[k].Deleted]_vars

\* A Write has just returned replaced = false for the only key of the map
\* in its second commit: the first commit had left a tombstone under it.
WriteOverTombstone ==
    /\ ret.kind = "Write" /\ ~ret.ok
    /\ DOMAIN store = {ret.key}
    /\ vc[addr] = 2

\* p is blocked in a client method, and its clock is ahead of the store's
\* on no node of the present replica list: whatever counter held it back
\* belongs to a node that the list no longer contains.
HeldByRemovedOnly(p) ==
    /\ pc[p] # "idle"
    /\ req[p].kind \in ClientKinds
    /\ \A n \in replicas : req[p].tcausal[n] <= vc[n]

\* C17: a client call that is blocked although its clock is ahead of the
\* store's on no node of the replica list (the nodes it was ahead on have
\* been removed by SetReplicas) eventually returns, with no further commit
\* or BumpClockForNode needed.
RemovedPeersDoNotBlock ==
    \A p \in Procs : HeldByRemovedOnly(p) ~> (pc[p] = "idle")

\* The stamp of the first entry a peer commits: its own counter at 1 and
\* nothing else; such an entry has no causal predecessor.
FirstStamps == {Increment(Zero, o) : o \in Nodes \ {addr}}

\* C18: an ImportEntry call whose entry has all its causal predecessors
\* delivered eventually returns; in particular the import of the first
\* entry a peer stamped, which has no predecessor, eventually returns,
\* whatever Writes and BumpClockForNode calls are interleaved with it.
ImportsReturn ==
    \A p \in Procs :
        (/\ pc[p] # "idle"
         /\ req[p].kind = "ImportEntry"
         /\ req[p].tcausal \in FirstStamps) ~> (pc[p] = "idle")

\* C19: the journal never deadlocks the store: there is no state in which a
\* committer is blocked in commitWrite's send on the full channel, holding
\* the store mutex, while the consumer, between two receives, is waiting
\* for that mutex to call into the store.
NoJournalDeadlock ==
    ~ /\ \E p \in Procs : pc[p] = "sending"
      /\ Len(journal) >= MaxJournal
      /\ pc[Consumer] = "calling"

\* C20: deleteHandler answers DeleteSuccess exactly when its own Delete
\* call removed a live key, and 404 / KeyDNE exactly when that call removed
\* nothing, whatever other handlers do between its Read and its Delete.
DeleteHandlerAtomic ==
    [][ret'.kind = "deleteHandler" =>
        (ret'.ok <=> ~Gone(store, ret'.key))]_vars

\* C12: when the delivery of gossip to one peer fails at the transport
\* (peer unreachable), the process keeps running and relayGossip goes on
\* with the peers it has not visited yet.
TransportFailureSkipped ==
    [][\A n \in Nodes :
        relayPeer(Gossiper, n, "unreachable") =>
            /\ \A q \in Procs : pc'[q] # "exited"
            /\ pc'[Gossiper] = "relaying"
            /\ req'[Gossiper].todo = req[Gossiper].todo \ {n}]_vars

\* The live keys of a map, with their values.
LiveOf(st) == {<<k, st[k].Value>> : k \in {j \in DOMAIN st : ~st[j].Deleted}}

\* Both replicas hold the same live keys with the same values, and their
\* clocks, cut to the replica list, compare Equal.
Converged ==
    /\ LiveOf(store[addr]) = LiveOf(store[Peer])
    /\ Compare(Subset(vc[addr], replicas), Subset(vc[Peer], replicas))
            = "Equal"

\* Each replica has written its key, and every journaled entry has been
\* handed to the other replica's ImportEntry.
AllHandedOver ==
    \A n \in Nodes : vc[n][n] > 0 /\ journal[n] = <<>>

\* C11: once two replicas that started empty have written their disjoint
\* keys and every journaled entry has been handed to the other replica's
\* ImportEntry, the exchange completes: the replicas come to hold the same
\* live keys with the same values, with clocks that compare Equal.
GossipConvergence == AllHandedOver ~> Converged

====
